---- MODULE Spec2Model ----
(***************************************************************************)
(* A model of numcodecs/jpeg2000.py: the JPEG2000 codec adapter.           *)
(*                                                                         *)
(* The state is one codec instance (its snr and rate), the caller's held   *)
(* array and compressed stream, and the record of the last call: its       *)
(* argument as passed (the constructor's snr and rate, encode's array,     *)
(* decode's output buffer), the error it raised, the value it returned, the caller's      *)
(* output buffer and the list of calls it made to the external engine      *)
(* (numcodecs._jpeg2k, recorded as a stub engine would), with the names of  *)
(* the functions it called, in the order of the calls.                     *)
(*                                                                         *)
(* Python values are modelled as follows.  A list-or-None is an option:    *)
(* PyNone is <<>> and the list l is <<l>>.  An ndarray is a record of its  *)
(* shape, dtype kind, itemsize, C-contiguity flag and its elements in      *)
(* logical row-major order.  A byte string is a sequence over 0..255.      *)
(* Floats (snr, rate) are integers.                                        *)
(***************************************************************************)
EXTENDS Integers, Sequences, FiniteSets, TLC

VARIABLES codec, arr, enc, op, arg, err, ret, out, engine, trace

vars == <<codec, arr, enc, op, arg, err, ret, out, engine, trace>>

----------------------------------------------------------------------------
(* Bounds of the model. *)

\* snr and rate are drawn from -1 .. MaxQuality
MaxQuality == 2
\* arrays have rank 0 .. MaxRank
MaxRank == 4
\* every dimension is 1 .. MaxDim
MaxDim == 4
\* arrays hold at most MaxElems elements
MaxElems == 8
\* foreign buffers are padded with 0 .. MaxPad filler bytes
MaxPad == 9
\* array contents are drawn with seeds 0 .. MaxSeed
MaxSeed == 0

----------------------------------------------------------------------------
(* Python values. *)

PyNone == <<>>

PyList(l) == <<l>>

IsNone(x) == x = PyNone

NoError == [type |-> "none", msg |-> ""]

Raise(t, m) == [type |-> t, msg |-> m]

RECURSIVE Product(_)
Product(s) == IF s = <<>> THEN 1 ELSE Head(s) * Product(Tail(s))

\* s[:n] of Python: the first n items, or all of s when it is shorter
Prefix(s, n) == SubSeq(s, 1, IF Len(s) < n THEN Len(s) ELSE n)

\* s[:-1] and s[-1], s[-2]
AllButLast(s) == SubSeq(s, 1, Len(s) - 1)

Last(s) == s[Len(s)]

----------------------------------------------------------------------------
(* The magic numbers, jpeg2000.py lines 15-17. *)

JP2_RFC3745_MAGIC == <<0, 0, 0, 12, 106, 80, 32, 32, 13, 10, 135, 10>>

JP2_MAGIC == <<13, 10, 135, 10>>

J2K_CODESTREAM_MAGIC == <<255, 79, 255, 81>>

\* get_codec_format without its first check, of the 12-byte signature
get_codec_format_short_only(buf) ==
    IF Prefix(buf, Len(JP2_MAGIC)) = JP2_MAGIC
    THEN [format |-> "OPJ_CODEC_JP2", err |-> NoError]
    ELSE IF Prefix(buf, Len(J2K_CODESTREAM_MAGIC)) = J2K_CODESTREAM_MAGIC
    THEN [format |-> "OPJ_CODEC_J2K", err |-> NoError]
    ELSE [format |-> "none", err |-> Raise("ValueError", "Invalid JPEG2000 header")]

\* get_codec_format refusing a buffer shorter than the longest signature
get_codec_format_min_length(buf) ==
    IF Len(buf) < Len(JP2_RFC3745_MAGIC)
    THEN [format |-> "none", err |-> Raise("ValueError", "Invalid JPEG2000 header")]
    ELSE IF Prefix(buf, Len(JP2_RFC3745_MAGIC)) = JP2_RFC3745_MAGIC
    THEN [format |-> "OPJ_CODEC_JP2", err |-> NoError]
    ELSE IF Prefix(buf, Len(JP2_MAGIC)) = JP2_MAGIC
    THEN [format |-> "OPJ_CODEC_JP2", err |-> NoError]
    ELSE IF Prefix(buf, Len(J2K_CODESTREAM_MAGIC)) = J2K_CODESTREAM_MAGIC
    THEN [format |-> "OPJ_CODEC_J2K", err |-> NoError]
    ELSE [format |-> "none", err |-> Raise("ValueError", "Invalid JPEG2000 header")]

\* CodecFormat.get_codec_format: the format, or the error it raises
get_codec_format(buf) ==
    IF Prefix(buf, Len(JP2_RFC3745_MAGIC)) = JP2_RFC3745_MAGIC
    THEN [format |-> "OPJ_CODEC_JP2", err |-> NoError]
    ELSE IF Prefix(buf, Len(JP2_MAGIC)) = JP2_MAGIC
    THEN [format |-> "OPJ_CODEC_JP2", err |-> NoError]
    ELSE IF Prefix(buf, Len(J2K_CODESTREAM_MAGIC)) = J2K_CODESTREAM_MAGIC
    THEN [format |-> "OPJ_CODEC_J2K", err |-> NoError]
    ELSE [format |-> "none", err |-> Raise("ValueError", "Invalid JPEG2000 header")]

----------------------------------------------------------------------------
(* ndarrays. *)

\* a.ndim
ndim(a) == Len(a.shape)

\* byte j (0 = least significant) of the two's complement form of v
ByteOf(v, j) == (v \div (256 ^ j)) % 256

\* np.frombuffer(buf.data, np.uint8): the memory of a C-contiguous array as
\* bytes, itemsize bytes per element, least significant first
frombuffer_uint8(a) ==
    [k \in 1 .. (Len(a.data) * a.itemsize) |->
        ByteOf(a.data[((k - 1) \div a.itemsize) + 1], (k - 1) % a.itemsize)]

\* ndarray.flatten(): a new one-dimensional array, a copy of the elements in
\* row-major order
flatten(a) == [a EXCEPT !.shape = <<Len(a.data)>>, !.c_contiguous = TRUE]

\* np.ascontiguousarray(buf.transpose(2, 0, 1)) of a rank-3 array: element
\* (c, y, x) of the new array is element (y, x, c) of buf
transpose_2_0_1(a) ==
    LET h == a.shape[1]
        w == a.shape[2]
        c == a.shape[3]
    IN  [a EXCEPT !.shape = <<c, h, w>>,
                  !.c_contiguous = TRUE,
                  !.data = [i \in 1 .. (h * w * c) |->
                              a.data[(((i - 1) % (h * w)) * c) + ((i - 1) \div (h * w)) + 1]]]

\* buf[i] of a rank-3 array (i from 1): the i-th plane, a rank-2 array
plane(a, i) ==
    LET n == a.shape[2] * a.shape[3]
    IN  [a EXCEPT !.shape = <<a.shape[2], a.shape[3]>>,
                  !.data = SubSeq(a.data, ((i - 1) * n) + 1, i * n)]

\* reshape_buf ravelling all indices after the first instead of prior to the last
reshape_buf_keep_first(buf) ==
    IF ndim(buf) = 1
    THEN [err |-> Raise("ValueError",
                        "JPEG2000 only supports arrays of 2 or more dimensions."),
          buf |-> buf]
    ELSE IF ndim(buf) > 2
    THEN [err |-> NoError,
          buf |-> [buf EXCEPT !.shape = <<Head(buf.shape), Product(Tail(buf.shape))>>]]
    ELSE [err |-> NoError, buf |-> buf]

\* JPEG2000.reshape_buf: the reshaped array, or the error it raises
reshape_buf(buf) ==
    IF ndim(buf) = 1
    THEN [err |-> Raise("ValueError",
                        "JPEG2000 only supports arrays of 2 or more dimensions."),
          buf |-> buf]
    ELSE IF ndim(buf) > 2
    THEN [err |-> NoError,
          buf |-> [buf EXCEPT !.shape = <<Product(AllButLast(buf.shape)), Last(buf.shape)>>]]
    ELSE [err |-> NoError, buf |-> buf]

----------------------------------------------------------------------------
(* The parameter and image records. *)

\* JPEG2000CParameters.__init__
JPEG2000CParameters ==
    [tile_size_on |-> FALSE,
     cp_tx0 |-> 0, cp_ty0 |-> 0, cp_tdx |-> 0, cp_tdy |-> 0,
     cp_disto_alloc |-> 1, cp_fixed_alloc |-> 0, cp_fixed_quality |-> 0,
     cp_comment |-> PyNone, csty |-> 0,
     prog_order |-> "OPJ_LRCP", pocs |-> PyNone, numpocs |-> 0,
     tcp_numlayers |-> 1,
     tcp_rates |-> PyList(<<0>>),
     tcp_distoratio |-> PyList(<<0>>),
     numresolution |-> 1,
     cblockw_init |-> 64, cblockh_init |-> 64,
     mode |-> 0, irreversible |-> 0,
     roi_compno |-> -1, roi_shift |-> 0, res_spec |-> 0,
     prcw_init |-> PyNone, prch_init |-> PyNone,
     image_offset_x0 |-> 0, image_offset_y0 |-> 0,
     subsampling_dx |-> 1, subsampling_dy |-> 1,
     decod_format |-> -1, cod_format |-> -1,
     max_comp_size |-> 0, tp_on |-> 0, tp_flag |-> 0, tcp_mct |-> 0,
     jpip_on |-> FALSE, mct_data |-> PyNone,
     max_cs_size |-> 0, rsiz |-> 0]

\* set_rates flagging every record lossless
set_rates_always_reversible(self, rates) ==
    [self EXCEPT !.cp_disto_alloc = 1,
                 !.cp_fixed_quality = 0,
                 !.tcp_rates = PyList(rates),
                 !.tcp_numlayers = Len(rates),
                 !.irreversible = 0,
                 !.tcp_distoratio = PyNone]

\* JPEG2000CParameters.set_rates
set_rates(self, rates) ==
    [self EXCEPT !.cp_disto_alloc = 1,
                 !.cp_fixed_quality = 0,
                 !.tcp_rates = PyList(rates),
                 !.tcp_numlayers = Len(rates),
                 !.irreversible = IF Last(rates) = 0 THEN 0 ELSE 1,
                 !.tcp_distoratio = PyNone]

\* set_psnrs leaving the rates in place
set_psnrs_keep_rates(self, psnrs) ==
    [self EXCEPT !.cp_disto_alloc = 0,
                 !.cp_fixed_quality = 1,
                 !.tcp_distoratio = PyList(psnrs),
                 !.tcp_numlayers = Len(psnrs),
                 !.irreversible = IF Last(psnrs) = 0 THEN 0 ELSE 1]

\* JPEG2000CParameters.set_psnrs
set_psnrs(self, psnrs) ==
    [self EXCEPT !.cp_disto_alloc = 0,
                 !.cp_fixed_quality = 1,
                 !.tcp_distoratio = PyList(psnrs),
                 !.tcp_numlayers = Len(psnrs),
                 !.irreversible = IF Last(psnrs) = 0 THEN 0 ELSE 1,
                 !.tcp_rates = PyNone]

\* CImageComptParm.__init__ with height and width taken from the wrong axes
CImageComptParm_swapped(a) ==
    [dx |-> 1, dy |-> 1, x0 |-> 0, y0 |-> 0,
     h |-> a.shape[Len(a.shape)],
     w |-> a.shape[Len(a.shape) - 1],
     sgnd |-> IF a.kind = "i" THEN 1 ELSE 0,
     prec |-> a.itemsize * 8,
     bpp |-> a.itemsize * 8]

\* CImageComptParm.__init__, of a rank-2 integer array (its two assertions
\* hold at every call encode makes)
CImageComptParm(a) ==
    [dx |-> 1, dy |-> 1, x0 |-> 0, y0 |-> 0,
     h |-> a.shape[Len(a.shape) - 1],
     w |-> a.shape[Len(a.shape)],
     sgnd |-> IF a.kind = "i" THEN 1 ELSE 0,
     prec |-> a.itemsize * 8,
     bpp |-> a.itemsize * 8]

\* CImage.__init__
CImage(components) ==
    [x0 |-> 0, x1 |-> 0, y0 |-> 0, y1 |-> 0,
     numcomps |-> Len(components),
     cmptparms |-> components,
     color_space |-> "OPJ_CLRSPC_GRAY"]

----------------------------------------------------------------------------
(* The external engine, numcodecs._jpeg2k.  A compressed stream is its      *)
(* leading bytes and an opaque payload: nothing for foreign bytes, else     *)
(* what the engine was handed.                                              *)

NoArray == [shape |-> <<>>, kind |-> "none", itemsize |-> 0,
            c_contiguous |-> TRUE, data |-> <<>>]

\* the first twelve bytes of a stream of the given container format: a raw
\* codestream starts with the SOC and SIZ markers, the length of the SIZ
\* segment, its capabilities and the image width; a boxed file with the
\* signature box
StreamHead(image, codec_format) ==
    IF codec_format = "OPJ_CODEC_J2K"
    THEN J2K_CODESTREAM_MAGIC \o <<0, 38 + (3 * image.numcomps), 0, 0>>
             \o [j \in 1 .. 4 |-> ByteOf(image.x1, 4 - j)]
    ELSE JP2_RFC3745_MAGIC

\* jpeg2k_encode: the compressed stream
jpeg2k_encode(data, params, image, codec_format) ==
    [bytes |-> StreamHead(image, codec_format),
     payload |-> <<[data |-> data, params |-> params, image |-> image]>>]

\* element e (from 1) of the pixel bytes, read back with the component's
\* precision and signedness
ElementOf(bytes, e, itemsize, sgnd) ==
    LET b(j) == bytes[((e - 1) * itemsize) + j + 1]
        top == IF sgnd = 1 /\ b(itemsize - 1) >= 128
               THEN b(itemsize - 1) - 256 ELSE b(itemsize - 1)
        RECURSIVE low(_)
        low(j) == IF j < 0 THEN 0 ELSE (b(j) * (256 ^ j)) + low(j - 1)
    IN  (top * (256 ^ (itemsize - 1))) + low(itemsize - 2)

\* the array the engine rebuilds from pixel bytes under an image description
Reconstruct(bytes, image) ==
    LET c == image.cmptparms[1]
        itemsize == c.prec \div 8
    IN  [shape |-> IF image.numcomps = 1 THEN <<image.y1, image.x1>>
                   ELSE <<image.numcomps, image.y1, image.x1>>,
         kind |-> IF c.sgnd = 1 THEN "i" ELSE "u",
         itemsize |-> itemsize,
         c_contiguous |-> TRUE,
         data |-> [e \in 1 .. (Len(bytes) \div itemsize) |->
                     ElementOf(bytes, e, itemsize, c.sgnd)]]

\* jpeg2k_decode: the outcomes the engine may produce.  Foreign bytes fail;
\* a lossless stream gives back the pixels it was made from; a lossy stream
\* gives them back exactly or degraded (here: every byte cleared).
jpeg2k_decode(buf, codec_format) ==
    IF buf.payload = <<>>
    THEN {[err |-> Raise("CodecEngineError", "decode failed"), result |-> NoArray]}
    ELSE LET p == buf.payload[1]
             exact == [err |-> NoError, result |-> Reconstruct(p.data, p.image)]
             degraded == [err |-> NoError,
                          result |-> Reconstruct([k \in 1 .. Len(p.data) |-> 0], p.image)]
         IN  IF p.params.irreversible = 0 THEN {exact} ELSE {exact, degraded}

----------------------------------------------------------------------------
(* The codec, class JPEG2000. *)

NoCodec == [constructed |-> FALSE, snr |-> 0, rate |-> 0]

\* __init__ without its check of a negative rate
JPEG2000_no_rate_check(snr, rate) ==
    IF snr > 0 /\ rate > 0
    THEN [err |-> Raise("ValueError", "snr or rate can be specified but not both"),
          self |-> NoCodec]
    ELSE IF snr < 0
    THEN [err |-> Raise("ValueError", "snr must be positive"), self |-> NoCodec]
    ELSE [err |-> NoError, self |-> [constructed |-> TRUE, snr |-> snr, rate |-> rate]]

\* JPEG2000.__init__: the instance, or the error it raises
JPEG2000(snr, rate) ==
    IF snr > 0 /\ rate > 0
    THEN [err |-> Raise("ValueError", "snr or rate can be specified but not both"),
          self |-> NoCodec]
    ELSE IF snr < 0
    THEN [err |-> Raise("ValueError", "snr must be positive"), self |-> NoCodec]
    ELSE IF rate < 0
    THEN [err |-> Raise("ValueError", "rate must be positive"), self |-> NoCodec]
    ELSE [err |-> NoError, self |-> [constructed |-> TRUE, snr |-> snr, rate |-> rate]]

\* an encode that raises: nothing returned, the engine not called
EncodeFails(e) == [err |-> e, ret |-> <<>>, engine |-> <<>>, trace |-> <<>>]

\* the last statement of encode: the call of jpeg2k_encode with the bytes of buf
EncodeCalls(buf, params, image) ==
    LET call == [fn |-> "jpeg2k_encode", data |-> frombuffer_uint8(buf),
                 params |-> params, image |-> image,
                 codec_format |-> "OPJ_CODEC_J2K"]
    IN  [err |-> NoError,
         ret |-> <<jpeg2k_encode(call.data, params, image, call.codec_format)>>,
         engine |-> <<call>>,
         trace |-> <<"jpeg2k_encode">>]

\* encode_checked taking every rank-3 array for a colour image, whatever its
\* trailing dimension
encode_checked_rank3_is_color(self, buf) ==
    LET params == IF self.snr > 0 THEN set_psnrs(JPEG2000CParameters, <<self.snr>>)
                  ELSE IF self.rate > 0 THEN set_rates(JPEG2000CParameters, <<self.rate>>)
                  ELSE JPEG2000CParameters
    IN  IF ndim(buf) = 2
        THEN EncodeCalls(buf,
                 [params EXCEPT !.cp_tdx = buf.shape[2], !.cp_tdy = buf.shape[1]],
                 [CImage(<<CImageComptParm(buf)>>) EXCEPT
                     !.x1 = buf.shape[2], !.y1 = buf.shape[1]])
        ELSE IF ndim(buf) = 3
        THEN LET t == transpose_2_0_1(buf)
             IN  EncodeCalls(t,
                     [params EXCEPT !.cp_tdx = t.shape[3], !.cp_tdy = t.shape[2]],
                     [CImage([i \in 1 .. t.shape[1] |-> CImageComptParm(plane(t, i))]) EXCEPT
                         !.x1 = t.shape[3], !.y1 = t.shape[2],
                         !.color_space = "OPJ_CLRSPC_SRGB"])
        ELSE IF ndim(buf) < 2
        THEN EncodeFails(Raise("IndexError", "tuple index out of range"))
        ELSE LET r == reshape_buf(buf)
             IN  IF r.err # NoError
                 THEN EncodeFails(r.err)
                 ELSE EncodeCalls(r.buf,
                          [params EXCEPT !.cp_tdx = Last(buf.shape),
                                         !.cp_tdy = buf.shape[Len(buf.shape) - 1],
                                         !.tile_size_on = TRUE],
                          [CImage(<<CImageComptParm(r.buf)>>) EXCEPT
                              !.x1 = r.buf.shape[2], !.y1 = r.buf.shape[1]])

\* encode, after its three checks of the input: the parameters, the image
\* description for the array's rank and shape, and the call of the engine
encode_checked(self, buf) ==
    LET params == IF self.snr > 0 THEN set_psnrs(JPEG2000CParameters, <<self.snr>>)
                  ELSE IF self.rate > 0 THEN set_rates(JPEG2000CParameters, <<self.rate>>)
                  ELSE JPEG2000CParameters
    IN  IF ndim(buf) = 2
        THEN EncodeCalls(buf,
                 [params EXCEPT !.cp_tdx = buf.shape[2], !.cp_tdy = buf.shape[1]],
                 [CImage(<<CImageComptParm(buf)>>) EXCEPT
                     !.x1 = buf.shape[2], !.y1 = buf.shape[1]])
        ELSE IF ndim(buf) = 3 /\ buf.shape[3] \in {3, 4}
        THEN LET t == transpose_2_0_1(buf)
             IN  EncodeCalls(t,
                     [params EXCEPT !.cp_tdx = t.shape[3], !.cp_tdy = t.shape[2]],
                     [CImage([i \in 1 .. t.shape[1] |-> CImageComptParm(plane(t, i))]) EXCEPT
                         !.x1 = t.shape[3], !.y1 = t.shape[2],
                         !.color_space = "OPJ_CLRSPC_SRGB"])
        ELSE IF ndim(buf) < 2
        \* buf.shape[-1] of rank 0, buf.shape[-2] of rank 1
        THEN EncodeFails(Raise("IndexError", "tuple index out of range"))
        ELSE LET r == reshape_buf(buf)
             IN  IF r.err # NoError
                 THEN EncodeFails(r.err)
                 ELSE EncodeCalls(r.buf,
                          [params EXCEPT !.cp_tdx = Last(buf.shape),
                                         !.cp_tdy = buf.shape[Len(buf.shape) - 1],
                                         !.tile_size_on = TRUE],
                          [CImage(<<CImageComptParm(r.buf)>>) EXCEPT
                              !.x1 = r.buf.shape[2], !.y1 = r.buf.shape[1]])

\* encode without its check of contiguity
encode_no_contiguity_check(self, buf) ==
    IF buf.kind \notin {"i", "u"}
    THEN EncodeFails(Raise("TypeError", "JPEG2000 only supports integer arrays"))
    ELSE IF buf.itemsize > 4
    THEN EncodeFails(Raise("TypeError", "JPEG2000 does not support 64-bit integers"))
    ELSE encode_checked(self, buf)

\* JPEG2000.encode: the error raised, the stream returned and the engine calls
\* made.  buf is an ndarray, which ensure_ndarray returns as it is.
encode(self, buf) ==
    IF ~buf.c_contiguous
    THEN EncodeFails(Raise("TypeError", "an array with contiguous memory is required"))
    ELSE IF buf.kind \notin {"i", "u"}
    THEN EncodeFails(Raise("TypeError", "JPEG2000 only supports integer arrays"))
    ELSE IF buf.itemsize > 4
    THEN EncodeFails(Raise("TypeError", "JPEG2000 does not support 64-bit integers"))
    ELSE encode_checked(self, buf)

\* v converted to the dtype of dst, as an assignment into dst converts it
Cast(v, dst) ==
    ElementOf([k \in 1 .. dst.itemsize |-> ByteOf(v, k - 1)], 1, dst.itemsize,
              IF dst.kind = "i" THEN 1 ELSE 0)

\* dst[:] = src[:] of two one-dimensional arrays: dst afterwards, or the error
\* numpy raises when src can not be broadcast to dst
setitem_all(dst, src) ==
    IF Len(src.data) = Len(dst.data)
    THEN [err |-> NoError,
          arr |-> [dst EXCEPT !.data = [i \in 1 .. Len(dst.data) |-> Cast(src.data[i], dst)]]]
    ELSE IF Len(src.data) = 1
    THEN [err |-> NoError,
          arr |-> [dst EXCEPT !.data = [i \in 1 .. Len(dst.data) |-> Cast(src.data[1], dst)]]]
    ELSE [err |-> Raise("ValueError", "could not broadcast input array"), arr |-> dst]

\* JPEG2000.decode, of buf with the caller's output buffer o (NoArray: out=None),
\* for one outcome d of the engine: the error raised, the value returned, the
\* output buffer afterwards and the engine calls made.  out.flatten() is a copy
\* of out, so the assignment fills that copy and out itself keeps its elements.
decode_with(buf, o, codec_format, d) ==
    LET call == [fn |-> "jpeg2k_decode", buf |-> buf, codec_format |-> codec_format]
        copied == setitem_all(flatten(o), flatten(d.result))
        called == <<"get_codec_format", "jpeg2k_decode">>
    IN  IF d.err # NoError
        THEN [err |-> d.err, ret |-> NoArray, out |-> o, engine |-> <<call>>,
              trace |-> called]
        ELSE IF o # NoArray /\ copied.err # NoError
        THEN [err |-> copied.err, ret |-> NoArray, out |-> o, engine |-> <<call>>,
              trace |-> called]
        ELSE [err |-> NoError, ret |-> flatten(d.result), out |-> o, engine |-> <<call>>,
              trace |-> called]

\* decode handing the engine a fixed container format, whatever the sniffer found
decode_fixed_format(buf, o) ==
    LET f == get_codec_format(buf.bytes)
    IN  IF f.err # NoError
        THEN {[err |-> f.err, ret |-> NoArray, out |-> o, engine |-> <<>>,
               trace |-> <<"get_codec_format">>]}
        ELSE {decode_with(buf, o, "OPJ_CODEC_J2K", d) :
                 d \in jpeg2k_decode(buf, "OPJ_CODEC_J2K")}

\* JPEG2000.decode: its possible outcomes
decode(buf, o) ==
    LET f == get_codec_format(buf.bytes)
    IN  IF f.err # NoError
        THEN {[err |-> f.err, ret |-> NoArray, out |-> o, engine |-> <<>>,
               trace |-> <<"get_codec_format">>]}
        ELSE {decode_with(buf, o, f.format, d) : d \in jpeg2k_decode(buf, f.format)}

----------------------------------------------------------------------------
(* The inputs the calls are given. *)

Qualities == -1 .. MaxQuality

\* numpy dtypes, as (kind, itemsize)
DTypes == {<<"u", 1>>, <<"u", 2>>, <<"u", 4>>, <<"u", 8>>,
           <<"i", 1>>, <<"i", 2>>, <<"i", 4>>, <<"i", 8>>, <<"f", 4>>}

Shapes ==
    {s \in UNION {[1 .. r -> 1 .. MaxDim] : r \in 0 .. MaxRank} : Product(s) <= MaxElems}

\* the largest and smallest element of a dtype the model uses (an unsigned
\* element is kept below 2^31, and an 8-byte element within 4 bytes)
Hi(kind, itemsize) ==
    IF kind \notin {"i", "u"} THEN 1
    ELSE IF itemsize >= 4 THEN 2147483647
    ELSE IF kind = "i" THEN (2 ^ ((8 * itemsize) - 1)) - 1
    ELSE (2 ^ (8 * itemsize)) - 1

Lo(kind, itemsize) == IF kind = "i" THEN (0 - Hi(kind, itemsize)) - 1 ELSE 0

\* element values of a dtype: both ends of its range and values around zero
Elements(kind, itemsize) ==
    <<Lo(kind, itemsize), 1, Hi(kind, itemsize), Lo(kind, itemsize) + 2,
      Hi(kind, itemsize) - 3>>

Seeds == 0 .. MaxSeed

Arrays ==
    {[shape |-> s, kind |-> t[1], itemsize |-> t[2], c_contiguous |-> c,
      data |-> [i \in 1 .. Product(s) |->
                  Elements(t[1], t[2])[((seed + i) % 5) + 1]]] :
        s \in Shapes, t \in DTypes, c \in BOOLEAN, seed \in Seeds}

\* n filler bytes
Pad(n, byte) == [i \in 1 .. n |-> byte]

\* foreign buffers: every prefix of every magic, and every magic and every
\* one-byte corruption of it followed by filler
Buffers ==
    LET magics == {JP2_RFC3745_MAGIC, JP2_MAGIC, J2K_CODESTREAM_MAGIC}
        corrupted == {[m EXCEPT ![k] = 255 - m[k]] : m \in magics, k \in 1 .. 4}
                     \cup {[JP2_RFC3745_MAGIC EXCEPT ![k] = 1] : k \in 5 .. 12}
    IN  {Prefix(m, k) : m \in magics, k \in 0 .. 12}
        \cup {h \o Pad(n, byte) : h \in magics \cup corrupted, n \in 0 .. MaxPad,
                                  byte \in {0, 255}}

Foreign(bytes) == [bytes |-> bytes, payload |-> <<>>]

\* the output buffers a caller passes: none, one like the array it encoded
\* (np.empty_like: any content), one of another element count
FillValues == {0, 1}

Outs(a) ==
    LET like == IF a = NoArray
                THEN [shape |-> <<2>>, kind |-> "u", itemsize |-> 1,
                      c_contiguous |-> TRUE, data |-> <<0, 0>>]
                ELSE a
    IN  {NoArray}
        \cup {[like EXCEPT !.data = [i \in 1 .. Len(like.data) |-> v]] : v \in FillValues}
        \cup {[like EXCEPT !.shape = <<Len(like.data) + 1>>,
                           !.data = [i \in 1 .. (Len(like.data) + 1) |-> 0]]}

----------------------------------------------------------------------------
(* The state machine. *)

NoCtor == [snr |-> 0, rate |-> 0]

Init ==
    /\ codec = NoCodec
    /\ arr = NoArray
    /\ enc = <<>>
    /\ op = "none"
    /\ arg = NoCtor
    /\ err = NoError
    /\ ret = NoArray
    /\ out = NoArray
    /\ engine = <<>>
    /\ trace = <<>>

\* codec = JPEG2000(snr=snr, rate=rate): a new instance, held by a caller that
\* holds nothing else yet
Construct(snr, rate) ==
    LET r == JPEG2000(snr, rate)
    IN  /\ codec' = r.self
        /\ err' = r.err
        /\ op' = "init"
        /\ arg' = [snr |-> snr, rate |-> rate]
        /\ arr' = NoArray
        /\ enc' = <<>>
        /\ ret' = NoArray
        /\ out' = NoArray
        /\ engine' = <<>>
        /\ trace' = <<>>

\* a caller that holds nothing yet
HoldsNothing == arr = NoArray /\ enc = <<>>

\* the arrays a caller encodes: any, when it holds nothing; else the one it holds
EncodeInputs ==
    IF HoldsNothing THEN Arrays ELSE IF arr # NoArray THEN {arr} ELSE {}

\* encode reshaping the caller's array in place (buf.shape = (-1, w)) instead
\* of rebinding buf to a reshaped view
Encode_reshapes_in_place(a) ==
    LET r == encode(codec, a)
    IN  /\ codec.constructed
        /\ arr' = IF ndim(a) > 2 /\ r.err = NoError THEN reshape_buf(a).buf ELSE a
        /\ enc' = r.ret
        /\ err' = r.err
        /\ engine' = r.engine
        /\ trace' = r.trace
        /\ op' = "encode"
        /\ arg' = a
        /\ ret' = NoArray
        /\ out' = NoArray
        /\ UNCHANGED codec

\* enc = codec.encode(a)
Encode(a) ==
    LET r == encode(codec, a)
    IN  /\ codec.constructed
        /\ arr' = a
        /\ enc' = r.ret
        /\ err' = r.err
        /\ engine' = r.engine
        /\ trace' = r.trace
        /\ op' = "encode"
        /\ arg' = a
        /\ ret' = NoArray
        /\ out' = NoArray
        /\ UNCHANGED codec

\* ret = codec.decode(buf, out=o); the caller keeps buf.  A caller decodes the
\* stream it holds, or, holding nothing, a foreign buffer
Decode(buf, o) ==
    /\ codec.constructed
    /\ \E r \in decode(buf, o) :
          /\ err' = r.err
          /\ ret' = r.ret
          /\ out' = r.out
          /\ engine' = r.engine
          /\ trace' = r.trace
    /\ op' = "decode"
    /\ arg' = o
    /\ enc' = <<buf>>
    /\ arr' = IF enc = <<buf>> THEN arr ELSE NoArray
    /\ UNCHANGED codec

Next ==
    \/ \E snr \in Qualities, rate \in Qualities : Construct(snr, rate)
    \/ \E a \in EncodeInputs : Encode(a)
    \/ \E o \in Outs(arr) : enc # <<>> /\ Decode(enc[1], o)
    \/ \E b \in Buffers, o \in Outs(NoArray) : HoldsNothing /\ Decode(Foreign(b), o)

Spec == Init /\ [][Next]_vars

----------------------------------------------------------------------------
(* The properties checked. *)

\* the buffer the last decode was given
DecodedBytes == enc[1].bytes

StartsWith(b, m) == Len(b) >= Len(m) /\ SubSeq(b, 1, Len(m)) = m

InvalidHeader == Raise("ValueError", "Invalid JPEG2000 header")

\* the last call was an encode that reached the engine
EncodeReachedEngine == op = "encode" /\ engine # <<>>

\* C1: with a codec built with rate=0 and snr=0, decoding the stream encode
\* returned for an array gives the array's elements in row-major order.
C1_RoundTrip ==
    (op = "decode" /\ arr # NoArray /\ err = NoError /\ codec.snr = 0 /\ codec.rate = 0)
        => ret.data = arr.data

\* C2: after a decode given an output buffer of the element count of the
\* reconstructed data, the output buffer holds the elements decode returned.
C2_OutputFilled ==
    (op = "decode" /\ err = NoError /\ out # NoArray /\ Len(out.data) = Len(ret.data))
        => out.data = ret.data

\* C3: encode of an array that is not C-contiguous, or not of an integer
\* dtype, or wider than 32 bits raises TypeError, and the engine is not called.
C3_RejectedBeforeEngine ==
    (op = "encode" /\ (~arg.c_contiguous \/ arg.kind \notin {"i", "u"} \/ arg.itemsize > 4))
        => (err.type = "TypeError" /\ engine = <<>> /\ trace = <<>> /\ enc = <<>>)

C3_Witness ==
    /\ op = "encode"
    /\ arg.c_contiguous /\ arg.kind = "i" /\ arg.itemsize = 8 /\ ndim(arg) = 2
    /\ err.type = "TypeError"

\* C4: the constructor raises ValueError when rate > 0 and snr > 0, and when
\* rate < 0 or snr < 0; it constructs the codec for every other pair; and no
\* constructed codec has both rate and snr positive.
C4_ConstructorValidation ==
    /\ codec.constructed => ~(codec.snr > 0 /\ codec.rate > 0)
    /\ op = "init" =>
          IF (arg.snr > 0 /\ arg.rate > 0) \/ arg.snr < 0 \/ arg.rate < 0
          THEN err.type = "ValueError" /\ ~codec.constructed
          ELSE /\ err = NoError
               /\ codec = [constructed |-> TRUE, snr |-> arg.snr, rate |-> arg.rate]

C4_Witness ==
    op = "init" /\ arg.snr > 0 /\ arg.rate > 0 /\ err.type = "ValueError"

\* C5: a buffer starting with the 12-byte or the 4-byte boxed-file signature is
\* handed on as JP2, one starting with ff 4f ff 51 as J2K, any other raises the
\* invalid-header error; and the answer is that of every buffer with the same
\* first 12 bytes.
C5_FormatDetection ==
    op = "decode" =>
        LET b == DecodedBytes
            sniffed == IF engine = <<>> THEN "none" ELSE engine[1].codec_format
        IN  /\ (StartsWith(b, JP2_RFC3745_MAGIC) \/ StartsWith(b, JP2_MAGIC))
                  => sniffed = "OPJ_CODEC_JP2"
            /\ StartsWith(b, J2K_CODESTREAM_MAGIC) => sniffed = "OPJ_CODEC_J2K"
            /\ (~StartsWith(b, JP2_RFC3745_MAGIC) /\ ~StartsWith(b, JP2_MAGIC)
                   /\ ~StartsWith(b, J2K_CODESTREAM_MAGIC))
                  => (sniffed = "none" /\ err = InvalidHeader)
            /\ \A b2 \in Buffers :
                  Prefix(b2, 12) = Prefix(b, 12) => get_codec_format(b2).format = sniffed

C5_Witness ==
    /\ op = "decode"
    /\ StartsWith(DecodedBytes, JP2_RFC3745_MAGIC)
    /\ Len(DecodedBytes) > 12
    /\ engine # <<>>
    /\ engine[1].codec_format = "OPJ_CODEC_JP2"

\* C6, as claimed: format detection raises the invalid-header error for every
\* buffer shorter than 12 bytes.
C6_ShortBufferRejected ==
    (op = "decode" /\ Len(DecodedBytes) < 12) => (err = InvalidHeader /\ engine = <<>>)

\* C6, amended: format detection raises the invalid-header error for every
\* buffer shorter than 4 bytes; a buffer of 4 to 11 bytes raises it exactly
\* when it starts with neither 4-byte signature, and is else handed on as J2K
\* (ff 4f ff 51) or JP2 (0d 0a 87 0a).
C6_ShortBufferByFirstFour ==
    (op = "decode" /\ Len(DecodedBytes) < 12) =>
        LET b == DecodedBytes
        IN  /\ Len(b) < 4 => (err = InvalidHeader /\ engine = <<>>)
            /\ StartsWith(b, J2K_CODESTREAM_MAGIC)
                  => (engine # <<>> /\ engine[1].codec_format = "OPJ_CODEC_J2K")
            /\ StartsWith(b, JP2_MAGIC)
                  => (engine # <<>> /\ engine[1].codec_format = "OPJ_CODEC_JP2")
            /\ (~StartsWith(b, J2K_CODESTREAM_MAGIC) /\ ~StartsWith(b, JP2_MAGIC))
                  => (err = InvalidHeader /\ engine = <<>>)

C6_Witness ==
    /\ op = "decode"
    /\ Len(DecodedBytes) >= 4 /\ Len(DecodedBytes) < 12
    /\ StartsWith(DecodedBytes, J2K_CODESTREAM_MAGIC)
    /\ engine # <<>>
    /\ engine[1].codec_format = "OPJ_CODEC_J2K"

\* C7, as claimed: the parameters handed to the engine never have both
\* tcp_rates and tcp_distoratio populated.
C7_NeverBothPopulated ==
    EncodeReachedEngine =>
        ~(~IsNone(engine[1].params.tcp_rates) /\ ~IsNone(engine[1].params.tcp_distoratio))

\* C7, amended: with rate > 0 or snr > 0 the parameters handed to the engine
\* have exactly one of tcp_rates and tcp_distoratio populated (the other is
\* None); with rate = 0 and snr = 0 both are the one-element list [0.0].
C7_OnePopulatedWhenLossy ==
    EncodeReachedEngine =>
        LET p == engine[1].params
        IN  /\ codec.snr > 0 => (IsNone(p.tcp_rates) /\ ~IsNone(p.tcp_distoratio))
            /\ (codec.snr = 0 /\ codec.rate > 0)
                  => (~IsNone(p.tcp_rates) /\ IsNone(p.tcp_distoratio))
            /\ (codec.snr = 0 /\ codec.rate = 0)
                  => (p.tcp_rates = PyList(<<0>>) /\ p.tcp_distoratio = PyList(<<0>>))

C7_Witness ==
    /\ EncodeReachedEngine
    /\ codec.snr > 0
    /\ IsNone(engine[1].params.tcp_rates)
    /\ engine[1].params.tcp_distoratio = PyList(<<codec.snr>>)

\* C8: decode calls the sniffer before the engine, hands the engine the format
\* the sniffer returned, and when the sniffer raises the invalid-header error
\* the engine is not called and the output buffer is as it was passed.
C8_SniffThenDecode ==
    op = "decode" =>
        LET f == get_codec_format(DecodedBytes)
        IN  /\ trace # <<>> /\ trace[1] = "get_codec_format"
            /\ \A i \in 1 .. Len(trace) :
                  trace[i] = "jpeg2k_decode" =>
                      \E j \in 1 .. (i - 1) : trace[j] = "get_codec_format"
            /\ f.err = NoError =>
                  /\ Len(engine) = 1
                  /\ engine[1].fn = "jpeg2k_decode"
                  /\ engine[1].codec_format = f.format
                  /\ engine[1].buf = enc[1]
            /\ f.err # NoError =>
                  /\ err = InvalidHeader
                  /\ engine = <<>>
                  /\ trace = <<"get_codec_format">>
                  /\ out = arg

C8_Witness ==
    /\ op = "decode"
    /\ err = InvalidHeader
    /\ arg # NoArray
    /\ out = arg
    /\ engine = <<>>

\* the description encode hands the engine, read off a call record
Described(call) ==
    [numcomps |-> call.image.numcomps,
     components |-> [i \in 1 .. Len(call.image.cmptparms) |->
                       <<call.image.cmptparms[i].h, call.image.cmptparms[i].w>>],
     tile |-> <<call.params.cp_tdy, call.params.cp_tdx>>,
     image |-> <<call.image.y1, call.image.x1>>,
     tiling |-> call.params.tile_size_on,
     color_space |-> call.image.color_space]

\* the description the dispatch rule gives for a shape of rank >= 2
Dispatched(shape) ==
    LET n == Len(shape)
    IN  IF n = 2
        THEN [numcomps |-> 1, components |-> <<shape>>, tile |-> shape, image |-> shape,
              tiling |-> FALSE, color_space |-> "OPJ_CLRSPC_GRAY"]
        ELSE IF n = 3 /\ shape[3] \in {3, 4}
        THEN [numcomps |-> shape[3],
              components |-> [i \in 1 .. shape[3] |-> <<shape[1], shape[2]>>],
              tile |-> <<shape[1], shape[2]>>, image |-> <<shape[1], shape[2]>>,
              tiling |-> FALSE, color_space |-> "OPJ_CLRSPC_SRGB"]
        ELSE [numcomps |-> 1,
              components |-> <<<<Product(SubSeq(shape, 1, n - 1)), shape[n]>>>>,
              tile |-> <<shape[n - 1], shape[n]>>,
              image |-> <<Product(SubSeq(shape, 1, n - 1)), shape[n]>>,
              tiling |-> TRUE, color_space |-> "OPJ_CLRSPC_GRAY"]

\* what a lossless codec hands the engine for a u1 array of the given shape
ExampleCall(shape) ==
    encode([constructed |-> TRUE, snr |-> 0, rate |-> 0],
           [shape |-> shape, kind |-> "u", itemsize |-> 1, c_contiguous |-> TRUE,
            data |-> [i \in 1 .. Product(shape) |-> i % 255]]).engine[1]

Example_30_40 == Described(ExampleCall(<<30, 40>>))

Example_64_64_3 == Described(ExampleCall(<<64, 64, 3>>))

Example_21_32_32 == Described(ExampleCall(<<21, 32, 32>>))

Example_5_21_32_32 == Described(ExampleCall(<<5, 21, 32, 32>>))

\* C9: for every accepted array of rank >= 2 the description handed to the
\* engine is the one the dispatch rule fixes from the shape: rank 2, rank 3
\* with 3 or 4 trailing channels, or tiled; with the four shapes of the tests.
C9_DispatchRule ==
    /\ (EncodeReachedEngine /\ ndim(arg) >= 2)
          => Described(engine[1]) = Dispatched(arg.shape)
    /\ (op = "encode" /\ err = NoError) => (EncodeReachedEngine /\ ndim(arg) >= 2)
    /\ Example_30_40.numcomps = 1 /\ ~Example_30_40.tiling
    /\ Example_30_40.tile = <<30, 40>> /\ Example_30_40.image = <<30, 40>>
    /\ Example_64_64_3.numcomps = 3 /\ ~Example_64_64_3.tiling
    /\ Example_64_64_3.color_space = "OPJ_CLRSPC_SRGB"
    /\ Example_21_32_32.numcomps = 1 /\ Example_21_32_32.tiling
    /\ Example_21_32_32.tile = <<32, 32>> /\ Example_21_32_32.image = <<672, 32>>
    /\ Example_5_21_32_32.tiling
    /\ Example_5_21_32_32.tile = <<32, 32>> /\ Example_5_21_32_32.image = <<3360, 32>>

C9_Witness ==
    /\ EncodeReachedEngine
    /\ ndim(arg) = 4
    /\ arg.shape[1] > 1 /\ arg.shape[2] > 1
    /\ engine[1].params.tile_size_on
    /\ engine[1].image.y1 = arg.shape[1] * arg.shape[2] * arg.shape[3]

\* C10: encode of a contiguous integer array of rank 0 or 1 raises the
\* ValueError of reshape_buf, and the engine is not called.
C10_UnsupportedRank ==
    (op = "encode" /\ arg.c_contiguous /\ arg.kind \in {"i", "u"} /\ arg.itemsize <= 4
         /\ ndim(arg) < 2)
        => /\ err = Raise("ValueError",
                          "JPEG2000 only supports arrays of 2 or more dimensions.")
           /\ engine = <<>>

\* the last call was an encode of an array that passes the three input checks
\* and has rank 3 with a trailing dimension other than 3 and 4
EncodedOddRank3 ==
    /\ op = "encode"
    /\ arg.c_contiguous /\ arg.kind \in {"i", "u"} /\ arg.itemsize <= 4
    /\ ndim(arg) = 3
    /\ arg.shape[3] \notin {3, 4}

\* C11, as claimed: encode of a rank-3 array whose trailing dimension is not 3
\* or 4 raises an error, and the engine is not called.
C11_OddRank3Rejected ==
    EncodedOddRank3 => (err # NoError /\ engine = <<>>)

\* C11, amended: encode of a rank-3 array whose trailing dimension is not 3 or
\* 4 raises no error; the array is encoded as a stack of tiles: the engine is
\* called once with one grayscale component, tiling enabled, the last two
\* dimensions as the tile extent and (d0 * d1, d2) as the image extent.
C11_OddRank3Tiled ==
    EncodedOddRank3 =>
        /\ err = NoError
        /\ Len(engine) = 1
        /\ enc # <<>>
        /\ engine[1].image.numcomps = 1
        /\ engine[1].image.color_space = "OPJ_CLRSPC_GRAY"
        /\ engine[1].params.tile_size_on
        /\ engine[1].params.cp_tdy = arg.shape[2]
        /\ engine[1].params.cp_tdx = arg.shape[3]
        /\ engine[1].image.y1 = arg.shape[1] * arg.shape[2]
        /\ engine[1].image.x1 = arg.shape[3]

C11_Witness ==
    /\ EncodedOddRank3
    /\ arg.shape = <<2, 2, 2>>
    /\ err = NoError
    /\ engine[1].params.tile_size_on
    /\ engine[1].image.y1 = 4

\* the per-layer values of a parameter record: the distortions in distortion
\* mode (cp_fixed_quality), else the rates
LayerValues(p) == IF p.cp_fixed_quality = 1 THEN p.tcp_distoratio[1] ELSE p.tcp_rates[1]

\* C12: the parameters handed to the engine are flagged lossless
\* (irreversible = 0) exactly when the last layer's value is zero: always with
\* rate=0 and snr=0; rate > 0 gives one layer in rate mode holding the rate,
\* snr > 0 one layer in distortion mode holding the snr, both flagged lossy.
C12_LosslessFlag ==
    EncodeReachedEngine =>
        LET p == engine[1].params
            layers == LayerValues(p)
        IN  /\ p.tcp_numlayers = Len(layers)
            /\ (p.irreversible = 0) <=> (Last(layers) = 0)
            /\ p.irreversible \in {0, 1}
            /\ (codec.rate = 0 /\ codec.snr = 0) => p.irreversible = 0
            /\ codec.rate > 0 =>
                  /\ p.cp_disto_alloc = 1 /\ p.cp_fixed_quality = 0
                  /\ p.tcp_rates = PyList(<<codec.rate>>)
                  /\ p.tcp_numlayers = 1
                  /\ p.irreversible = 1
            /\ codec.snr > 0 =>
                  /\ p.cp_disto_alloc = 0 /\ p.cp_fixed_quality = 1
                  /\ p.tcp_distoratio = PyList(<<codec.snr>>)
                  /\ p.tcp_numlayers = 1
                  /\ p.irreversible = 1

C12_Witness ==
    /\ EncodeReachedEngine
    /\ codec.rate > 0
    /\ engine[1].params.tcp_rates = PyList(<<codec.rate>>)
    /\ engine[1].params.irreversible = 1

\* C13, as claimed: in every description handed to the engine the component
\* count is the length of the component list, and with tiling enabled every
\* component has the height and width of the tile extent.
C13_ComponentsMatchTile ==
    EncodeReachedEngine =>
        LET image == engine[1].image
            p == engine[1].params
        IN  /\ image.numcomps = Len(image.cmptparms)
            /\ p.tile_size_on =>
                  \A i \in 1 .. Len(image.cmptparms) :
                      /\ image.cmptparms[i].h = p.cp_tdy
                      /\ image.cmptparms[i].w = p.cp_tdx

\* C13, amended: the component count is the length of the component list, and
\* with tiling enabled every component has the height and width of the image
\* extent: its width is the tile's width and its height a whole multiple of
\* the tile's height (the product of the leading dimensions times it).
C13_ComponentsMatchImage ==
    EncodeReachedEngine =>
        LET image == engine[1].image
            p == engine[1].params
        IN  /\ image.numcomps = Len(image.cmptparms)
            /\ p.tile_size_on =>
                  \A i \in 1 .. Len(image.cmptparms) :
                      /\ image.cmptparms[i].h = image.y1
                      /\ image.cmptparms[i].w = image.x1
                      /\ image.cmptparms[i].w = p.cp_tdx
                      /\ image.cmptparms[i].h
                            = Product(SubSeq(arg.shape, 1, Len(arg.shape) - 2)) * p.cp_tdy

C13_Witness ==
    /\ EncodeReachedEngine
    /\ engine[1].params.tile_size_on
    /\ engine[1].image.numcomps = 1
    /\ engine[1].params.cp_tdy = 2
    /\ engine[1].image.cmptparms[1].h = 4

====
